---- MODULE Spec2Model ----
(***************************************************************************)
(* CosmosDbStorage (botbuilder-azure/src/cosmosDbStorage.ts): the storage  *)
(* provider's read / write / delete over a Cosmos DB container, with the   *)
(* lazy provisioning of ensureContainerExists and the requests each call   *)
(* leaves in flight.                                                       *)
(*                                                                         *)
(* A call is one invocation of read, write or delete on a store instance.  *)
(* The backing service answers one request per step; the step in which it  *)
(* answers is also the step in which the awaiting code resumes.            *)
(*                                                                         *)
(* AdaptiveCardPrompt (botbuilder-dialogs/src/prompts/adaptiveCardPrompt.ts):*)
(* the prompt's beginDialog / continueDialog over one conversation, a step *)
(* per turn.                                                               *)
(***************************************************************************)
EXTENDS Integers, FiniteSets, Sequences, TLC

\* ---------------------------------------------------------------- bounds
MaxCalls == 3
NumInsts == 2
MaxEtag == 3
MaxFaults == 1

Calls == 1..MaxCalls
Insts == 1..NumInsts
Keys == {"k1", "k/2"}

\* ------------------------------------------------------------ pure parts

\* An eTag that is not there (changes[k].eTag of an item without the field).
Undefined == "undefined"

\* The version tokens (_etag) of the service, in the order it issues them.
ETagToken(n) == <<"v1", "v2", "v3", "v4", "v5", "v6", "v7", "v8">>[n]

\* CosmosDbKeyEscape.escapeKey: the id a key is stored under.
EscapeKey(k) == IF k = "k/2" THEN "k*2f2" ELSE k

EmptyMap == [k \in {} |-> "none"]

\* !eTag
Falsy(eTag) == eTag = Undefined \/ eTag = ""

\* Every entry is upserted whatever its eTag.
WriteBranchUpsert(eTag) == "upsert"

\* The branch write takes for one entry (lines 593-617).
WriteBranch(eTag) ==
    IF Falsy(eTag) \/ eTag = "*" THEN "upsert"
    ELSE IF eTag # "" THEN "replace"
    ELSE "etag empty"

\* A replace sent with a condition that every version satisfies.
AccessConditionNone(eTag) == [type |-> "IfMatch", condition |-> "*"]

\* The accessCondition of the replace request (lines 605-608).
AccessCondition(eTag) == [type |-> "IfMatch", condition |-> eTag]

\* The caller's item itself as the payload.
ChangesCopyWithETag(item) == item

\* changesCopy = {...changes[k]}; delete changesCopy.eTag
ChangesCopy(item) == [count |-> item.count]

\* documentChange
DocumentChange(k, item) ==
    [id |-> EscapeKey(k), realId |-> k, document |-> ChangesCopy(item)]

\* storeItems[resource.realId] = resource.document, with eTag = resource._etag
StoreItem(resource) ==
    [count |-> resource.document.count, eTag |-> resource._etag]

\* A write that returns with its request answered.
WriteRequestAnswered(eTag, co) == IF co THEN "ok" ELSE "eType"

\* What the per-key callback of write has done when write returns: the
\* request is in flight, or the callback has thrown without issuing one.
WriteRequest(eTag, co) ==
    IF WriteBranch(eTag) = "etag empty" THEN "eEmpty"
    ELSE IF co THEN "pending" ELSE "eType"

\* The same for delete.
DeleteRequest(co) == IF co THEN "pending" ELSE "eType"

\* The body of a call after `await this.ensureContainerExists()`.
\* co: this.container is set.
AfterEnsure(o, ks, ch, co) ==
    IF o = "read"
    THEN IF co
         THEN [pc |-> "query", outcome |-> "none", reqs |-> EmptyMap]
         ELSE [pc |-> "done", outcome |-> "Error reading from container",
               reqs |-> EmptyMap]
    ELSE IF o = "write"
    THEN [pc |-> "done", outcome |-> "ok",
          reqs |-> [k \in DOMAIN ch |-> WriteRequest(ch[k].eTag, co)]]
    ELSE [pc |-> "done", outcome |-> "ok",
          reqs |-> [k \in ks |-> DeleteRequest(co)]]

\* ensureContainerExists from `if (!this.container)` on.
\* db, co: this.database, this.container are set.
EnsureContainer(o, ks, ch, db, co) ==
    IF ~co
    THEN IF ~db
         THEN [pc |-> "done", outcome |-> "Error initializing container",
               reqs |-> EmptyMap]
         ELSE [pc |-> "coll", outcome |-> "none", reqs |-> EmptyMap]
    ELSE AfterEnsure(o, ks, ch, co)

\* A call that goes on to its data requests without provisioning.
EnsureSkipped(o, ks, ch, db, co) == AfterEnsure(o, ks, ch, TRUE)

\* ensureContainerExists from its start.
EnsureContainerExists(o, ks, ch, db, co) ==
    IF ~db
    THEN [pc |-> "db", outcome |-> "none", reqs |-> EmptyMap]
    ELSE EnsureContainer(o, ks, ch, db, co)

\* ----------------------------------------------------------- construction
\* A string is the sequence of its pieces: a blank, the path separator, or a
\* name taken whole. A settings object is a function from the names of the
\* fields it has to their strings; a field that is undefined is not in its
\* domain.
MaxStrLen == 2
MaxTurns == 3

RequiredFields == <<"serviceEndpoint", "authKey", "databaseId", "collectionId">>

\* String.prototype.trim
RECURSIVE TrimStart(_)
TrimStart(s) == IF s # <<>> /\ Head(s) = " " THEN TrimStart(Tail(s)) ELSE s

RECURSIVE TrimEnd(_)
TrimEnd(s) ==
    IF s # <<>> /\ s[Len(s)] = " " THEN TrimEnd(SubSeq(s, 1, Len(s) - 1)) ELSE s

\* A trim that leaves the string as it is.
TrimNothing(s) == s

Trim(s) == TrimEnd(TrimStart(s))

\* !settings.f: the field is undefined or the empty string.
NotSet(s, f) == f \notin DOMAIN s \/ s[f] = <<>>

\* !settings.f || settings.f.trim() === '' (lines 465, 469, 473, 477)
Required(s, f) == NotSet(s, f) \/ Trim(s[f]) = <<>>

\* The message of the validation that throws first (lines 461-479), "none"
\* when none does.
RequiredError(given, s) ==
    IF ~given THEN "The settings parameter is required."
    ELSE IF Required(s, "serviceEndpoint")
    THEN "The settings service Endpoint is required."
    ELSE IF Required(s, "authKey") THEN "The settings authKey is required."
    ELSE IF Required(s, "databaseId")
    THEN "The settings dataBase ID is required."
    ELSE IF Required(s, "collectionId")
    THEN "The settings collection ID is required."
    ELSE "none"

\* A "/" put before every partitionKey.
PartitionKeyPrepended(s) ==
    IF NotSet(s, "partitionKey") THEN EmptyMap
    ELSE "partitionKey" :> (<<"/">> \o s.partitionKey)

\* Lines 504-506: a partitionKey that is there gets its leading "/".
PartitionKey(s) ==
    IF NotSet(s, "partitionKey") THEN EmptyMap
    ELSE "partitionKey" :>
            (IF Head(s.partitionKey) # "/"
             THEN <<"/">> \o s.partitionKey
             ELSE s.partitionKey)

\* A partitionValue left as the caller gave it.
PartitionValueAsGiven(s) ==
    IF "partitionValue" \in DOMAIN s THEN "partitionValue" :> s.partitionValue
    ELSE EmptyMap

\* Line 509: this.settings.partitionValue = this.settings.partitionValue || ''
PartitionValue(s) ==
    "partitionValue" :>
        (IF NotSet(s, "partitionValue") THEN <<>> ELSE s.partitionValue)

\* this.settings once the constructor has normalised its copy (lines 481-509).
ThisSettings(s) == PartitionValue(s) @@ PartitionKey(s) @@ s

\* Lines 514-518.
blankDocumentStoreItem == [id |-> "true", realId |-> "true", document |-> "true"]

\* obj[name] for a name that may be undefined: the property whose name is the
\* whole string, undefined when there is none.
Property(obj, s, f) ==
    IF f \in DOMAIN s /\ Len(s[f]) = 1 /\ s[f][1] \in DOMAIN obj
    THEN obj[s[f][1]]
    ELSE Undefined

\* Lines 519-521.
PartitionKeyError(ts) ==
    IF Property(blankDocumentStoreItem, ts, "partitionKey") = "true"
    THEN "partitionKey cannot be set to any: id,realId,document"
    ELSE "none"

\* The error the constructor throws for its argument, "none" when it returns.
ConstructorError(given, s) ==
    IF RequiredError(given, s) # "none" THEN RequiredError(given, s)
    ELSE PartitionKeyError(ThisSettings(s))

\* this.settings = {...settings} (line 481) and what lines 504-509 then do to
\* it: the instance's copy is normalised, the caller's object is as it was.
Assigned(s) == [own |-> ThisSettings(s), caller |-> s]

\* formatPartitionKeyValue (lines 701-705): the partition field of a document,
\* named by the partitionKey without its first character.
formatPartitionKeyValue(ts) ==
    IF NotSet(ts, "partitionKey") THEN EmptyMap
    ELSE Tail(ts.partitionKey) :>
            (IF NotSet(ts, "partitionValue") THEN <<>> ELSE ts.partitionValue)

\* reqOptions of the query, the replace and the delete (lines 549, 607, 633).
reqOptions(ts) ==
    IF "partitionValue" \in DOMAIN ts THEN "partitionKey" :> ts.partitionValue
    ELSE EmptyMap

\* The request of each kind as far as the partition goes: the options it is
\* sent with and the partition field of the document it carries.
\* upsert: lines 585-598; replace: 585-611; query: 549-552; delete: 633-635.
RequestOf(kind, ts) ==
    [kind |-> kind,
     options |-> IF kind = "upsert" THEN EmptyMap ELSE reqOptions(ts),
     document |-> IF kind \in {"upsert", "replace"}
                  THEN formatPartitionKeyValue(ts) ELSE EmptyMap]

\* No request.
NoRequest == [kind |-> "none", options |-> EmptyMap, document |-> EmptyMap]

\* ------------------------------------------------------ errWithNewMessage
\* (cosmosDbStorage.ts lines 715-732.) What the backing store throws is an
\* Error (kind "Error", with its message), an object that resembles an HTTP
\* error (kind "object", with or without a body), a string (kind "string"),
\* or undefined / null (kind "undefined").

\* JSON.stringify of a string: quoted, its quotes escaped.
RECURSIVE Escaped(_)
Escaped(str) ==
    IF str = <<>> THEN <<>>
    ELSE (IF Head(str) = "\"" THEN <<"\\\"">> ELSE <<Head(str)>>)
         \o Escaped(Tail(str))

Stringify(str) == <<"\"">> \o Escaped(str) \o <<"\"">>

\* The body of an HTTP error whose JSON holds the message.
BodyWith(str) == <<"{\"message\":">> \o Stringify(str) \o <<"}">>

\* The inverse of Escaped.
RECURSIVE Unescaped(_)
Unescaped(str) ==
    IF str = <<>> THEN <<>>
    ELSE (IF Head(str) = "\\\"" THEN <<"\"">> ELSE <<Head(str)>>)
         \o Unescaped(Tail(str))

\* JSON.parse(body) (line 721): the object parsed, as the fields it has, or
\* a SyntaxError for text that is no JSON.
JsonParse(body) ==
    IF body = <<"{}">> THEN [threw |-> "none", fields |-> EmptyMap]
    ELSE IF Len(body) >= 4 /\ body[1] = "{\"message\":" /\ body[2] = "\""
            /\ body[Len(body) - 1] = "\"" /\ body[Len(body)] = "}"
    THEN [threw |-> "none",
          fields |-> "message" :> Unescaped(SubSeq(body, 3, Len(body) - 2))]
    ELSE [threw |-> "SyntaxError", fields |-> EmptyMap]

\* Nothing handed on.
NoError ==
    [threw |-> "none", message |-> <<>>, original |-> [kind |-> "undefined"],
     code |-> <<>>]

\* errWithNewMessage(err, message) (lines 715-732): the error it throws
\* itself, or the message, the original and the code of the error it returns;
\* left is the caught object as the call leaves it.
errWithNewMessage(err, message) ==
    IF err.kind = "Error"
    THEN LET changed ==
                 [err EXCEPT !.message = message \o <<": ">> \o Stringify(@)]
         IN  [left |-> changed,
              handed |-> [threw |-> "none", message |-> changed.message,
                          original |-> changed, code |-> <<>>]]
    ELSE IF err.kind = "undefined"
    THEN [left |-> err, handed |-> [NoError EXCEPT !.threw = "TypeError"]]
    ELSE IF err.kind = "object" /\ "body" \in DOMAIN err /\ err.body # <<>>
    THEN LET parsedError == JsonParse(err.body)
         IN  IF parsedError.threw # "none"
             THEN [left |-> err,
                   handed |-> [NoError EXCEPT !.threw = parsedError.threw]]
             ELSE LET text == IF "message" \in DOMAIN parsedError.fields
                              THEN Stringify(parsedError.fields.message)
                              ELSE <<>>
                  IN  [left |-> err,
                       handed |-> [threw |-> "none",
                                   message |-> message \o <<": ">> \o text,
                                   original |-> err,
                                   code |-> IF "message" \in DOMAIN parsedError.fields
                                            THEN parsedError.fields.message
                                            ELSE <<>>]]
    ELSE LET text == IF err.kind = "string" THEN Stringify(err.value)
                     ELSE <<"{...}">>
             made == message \o <<": ">> \o text
         IN  [left |-> err,
              handed |-> [threw |-> "none", message |-> made,
                          original |-> IF err.kind = "string" /\ err.value = <<>>
                                       THEN [kind |-> "Error", message |-> made]
                                       ELSE err,
                          code |-> <<>>]]

\* ------------------------------------------------ AdaptiveCardPrompt
\* (botbuilder-dialogs/src/prompts/adaptiveCardPrompt.ts.) Objects are
\* functions whose domain is the set of the fields they have; strings are
\* sequences of pieces; a card stands for its contentType and the promptId
\* its submit actions carry.

\* obj.f is there.
Has(obj, f) == f \in DOMAIN obj

\* options.f || dflt (lines 94-99), for a string or an array.
OrDefault(options, f, dflt) ==
    IF Has(options, f) /\ options[f] # <<>> THEN options[f] ELSE dflt

\* new AdaptiveCardPrompt(dialogId, validator, options) (lines 87-103).
AdaptiveCardPrompt(validator, options) ==
    [validator |-> validator,
     inputFailMessage |->
         OrDefault(options, "inputFailMessage",
                   <<"Please fill out the Adaptive Card">>),
     requiredInputIds |-> OrDefault(options, "requiredInputIds", <<>>),
     missingRequiredInputsMessage |->
         OrDefault(options, "missingRequiredInputsMessage",
                   <<"The following inputs are required">>),
     attemptsBeforeCardRedisplayed |->
         IF Has(options, "attemptsBeforeCardRedisplayed")
            /\ options.attemptsBeforeCardRedisplayed # 0
         THEN options.attemptsBeforeCardRedisplayed ELSE 3,
     card |-> IF Has(options, "card") THEN <<options.card>> ELSE <<>>,
     promptId |-> 0]

\* The content type validateIsCard asks for (line 258).
adaptiveCardType == "application/vnd.microsoft.card.adaptive"

\* validateIsCard(card, isRetry) (lines 257-264): the message of the error
\* thrown, "none" when none is. card is <<>> or <<the attachment>>.
validateIsCard(card, isRetry) ==
    IF card = <<>> \/ ~Has(card[1], "contentType")
       \/ card[1].contentType # adaptiveCardType
    THEN IF isRetry
         THEN "No Adaptive Card provided. Include in the constructor or PromptOptions.retryPrompt.attachments[0]"
         ELSE "No Adaptive Card provided. Include in the constructor or PromptOptions.prompt.attachments[0]"
    ELSE "none"

\* addPromptIdToCard (lines 266-269): every submit action of the card
\* carries the promptId.
addPromptIdToCard(card, promptId) == ("promptId" :> promptId) @@ card

\* What Object.keys throws for undefined (line 173 with no options.prompt).
KeysOfUndefined == "TypeError: Cannot convert undefined or null to object"

\* onPrompt(context, state, options, isRetry) of prompt p (lines 164-186):
\* the promptId it leaves, the activities it sends and the error it throws.
\* Math.random() (line 167) gives an id no card has carried.
onPrompt(p, options, isRetry) ==
    LET promptId == p.promptId + 1
        which == IF isRetry /\ Has(options, "retryPrompt")
                 THEN "retryPrompt" ELSE "prompt"
    IN  IF ~Has(options, which)
        THEN [promptId |-> promptId, sent |-> <<>>, error |-> KeysOfUndefined]
        ELSE
        LET chosen == options[which]
            activity == IF DOMAIN chosen = {}
                        THEN ("attachments" :> <<>>) ELSE chosen
            card == IF Has(activity, "attachments")
                       /\ activity.attachments # <<>>
                    THEN <<activity.attachments[1]>> ELSE p.card
            thrown == validateIsCard(card, isRetry)
        IN  IF thrown # "none"
            THEN [promptId |-> promptId, sent |-> <<>>, error |-> thrown]
            ELSE [promptId |-> promptId,
                  sent |-> <<("attachments" :>
                                <<addPromptIdToCard(card[1], promptId)>>)
                             @@ activity>>,
                  error |-> "none"]

\* ids.join(', ') (line 247)
RECURSIVE Join(_)
Join(ids) ==
    IF ids = <<>> THEN <<>>
    ELSE IF Len(ids) = 1 THEN ids
    ELSE <<Head(ids), ", ">> \o Join(Tail(ids))

\* An input counts as there whenever it is not the empty string.
MissingUntrimmed(value, id) == ~Has(value.data, id) \/ value.data[id] = <<>>

\* !value[id] || !value[id].trim() (line 242)
Missing(value, id) ==
    ~Has(value.data, id) \/ value.data[id] = <<>> \/ Trim(value.data[id]) = <<>>

\* A recognizer that takes the submission of any card.
onRecognizeAnyCard(p, activity) ==
    IF (~Has(activity, "text") \/ activity.text = <<>>) /\ Has(activity, "value")
    THEN LET missingIds ==
                 SelectSeq(p.requiredInputIds,
                           LAMBDA id : Missing(activity.value, id))
         IN  IF missingIds # <<>>
             THEN [succeeded |-> FALSE,
                   sent |-> IF p.missingRequiredInputsMessage # <<>>
                            THEN <<"text" :>
                                     (p.missingRequiredInputsMessage
                                      \o <<": ">> \o Join(missingIds))>>
                            ELSE <<>>]
             ELSE [succeeded |-> TRUE, sent |-> <<>>]
    ELSE [succeeded |-> FALSE, sent |-> <<>>]

\* onRecognize(context) of prompt p (lines 230-255): the result and the
\* activities it sends.
onRecognize(p, activity) ==
    IF (~Has(activity, "text") \/ activity.text = <<>>) /\ Has(activity, "value")
    THEN IF activity.value.promptId # p.promptId
         THEN [succeeded |-> FALSE, sent |-> <<>>]
         ELSE LET missingIds ==
                      SelectSeq(p.requiredInputIds,
                                LAMBDA id : Missing(activity.value, id))
              IN  IF missingIds # <<>>
                  THEN [succeeded |-> FALSE,
                        sent |-> IF p.missingRequiredInputsMessage # <<>>
                                 THEN <<"text" :>
                                          (p.missingRequiredInputsMessage
                                           \o <<": ">> \o Join(missingIds))>>
                                 ELSE <<>>]
                  ELSE [succeeded |-> TRUE, sent |-> <<>>]
    ELSE [succeeded |-> FALSE, sent |-> <<>>]

\* A count that is set once and never incremented.
attemptCountOnce(state) == 1

\* state.state['attemptCount'] after lines 194-198; 0 stands for undefined.
attemptCount(state) == IF state.attemptCount = 0 THEN 1 ELSE state.attemptCount + 1

\* A recognized value ends the dialog whatever the validator answers.
isValidUnvalidated(p, recognized, valid) == recognized.succeeded

\* isValid of lines 200-216; valid is what the validator answers when called.
isValid(p, recognized, valid) ==
    IF p.validator /\ recognized.succeeded THEN valid
    ELSE recognized.succeeded

\* The input-fail message of lines 211-216.
inputFail(p, recognized) ==
    IF ~recognized.succeeded /\ p.inputFailMessage # <<>>
    THEN <<"text" :> p.inputFailMessage>> ELSE <<>>

\* The card is displayed again on the count alone.
RedisplayOnCount(p, options, count) ==
    count % p.attemptsBeforeCardRedisplayed = 0

\* The condition of line 223.
Redisplay(p, options, count) ==
    Has(options, "retryPrompt") \/ count % p.attemptsBeforeCardRedisplayed = 0

\* ----------------------------------------------------------------- state
VARIABLES
    dbExists,     \* service: the database exists
    collExists,   \* service: the collection exists
    docs,         \* service: id -> [realId, document, _etag]
    nextEtag,     \* service: the index of the next version token
    database,     \* instance -> this.database is set
    container,    \* instance -> this.container is set
    pc,           \* call -> "idle", "db", "coll", "query", "done"
    op,           \* call -> "none", "read", "write", "delete"
    inst,         \* call -> the instance it runs on
    keys,         \* call -> the keys of a read or delete
    changes,      \* call -> the changes of a write: key -> [count, eTag]
    outcome,      \* call -> "none", "ok", or the message of the error thrown
    items,        \* call -> the StoreItems a read returned
    reqs,         \* call -> key -> state of the per-key request / callback
    sawAbsent,    \* call -> its create request in flight found the resource absent
    absorbed,     \* call -> a 409 of a create request was swallowed
    doneBefore,   \* call -> the calls that had returned when it started
    coldStart,    \* call -> neither resource existed when it started
    caught,       \* call -> the code of the error its last awaited request threw, 0: none
    faults,       \* failures of the transport so far
    given,        \* the constructor was passed a settings object
    settings,     \* the settings object passed to the constructor
    constructed,  \* the constructor has run
    error,        \* the message of the error the constructor threw, or "none"
    thisSettings, \* this.settings of the instance constructed
    request,      \* the last request the instance constructed has issued
    prompt,       \* the AdaptiveCardPrompt: its fields, promptId among them
    dialog,       \* dc.activeDialog of the prompt: status, options, attemptCount
    turn,         \* the last turn: the activity received, what was sent and returned
                  \*   (returned: "EndOfTurn", "endDialog", or the error thrown)
    history,      \* continueDialog calls since beginDialog, promptIds of the cards sent
    elsewhere,    \* the prompt's dialog in a second conversation: begun, cards sent
    wrap          \* a call of errWithNewMessage: the error caught, the context
                  \*   message, and what the call left and handed on

vars == <<dbExists, collExists, docs, nextEtag, database, container, pc, op,
          inst, keys, changes, outcome, items, reqs, sawAbsent, absorbed,
          caught, doneBefore, coldStart, faults, given, settings, constructed,
          error, thisSettings, request, prompt, dialog, turn, history,
          elsewhere, wrap>>

service == <<dbExists, collExists, docs, nextEtag>>
handles == <<database, container>>
inputs == <<op, inst, keys, changes, doneBefore, coldStart>>
construction == <<given, settings, constructed, error, thisSettings>>
prompts == <<prompt, dialog, turn, history>>

\* The second conversation before the prompt is begun in it.
NotBegun == [begun |-> FALSE, cards |-> <<>>]

\* No error caught yet.
NoWrap ==
    [err |-> [kind |-> "undefined"], left |-> [kind |-> "undefined"],
     message |-> <<>>, done |-> FALSE, handed |-> NoError]

\* recognized.value of a result that did not succeed.
NoValue == [promptId |-> 0, data |-> EmptyMap]

\* No dialog of the prompt on the stack. status: "none", "waiting" (the
\* prompt is the active dialog), "complete" (endDialog was called), "failed"
\* (beginDialog or continueDialog threw).
NoDialog ==
    [status |-> "none", options |-> EmptyMap, attemptCount |-> 0,
     result |-> NoValue]

\* No turn yet.
NoTurn ==
    [activity |-> EmptyMap, succeeded |-> FALSE, validated |-> FALSE,
     valid |-> FALSE, reprompted |-> FALSE, sent |-> <<>>, returned |-> "none"]

\* The prompt as constructed with no options, never begun.
NoPrompt ==
    /\ prompt = AdaptiveCardPrompt(FALSE, EmptyMap)
    /\ dialog = NoDialog
    /\ turn = NoTurn
    /\ history = [calls |-> 0, cards |-> <<>>]
    /\ elsewhere = NotBegun
    /\ wrap = NoWrap

\* The stored record of the pre-populated collection.
SeedDoc == [realId |-> "k/2", document |-> [count |-> 0], _etag |-> ETagToken(1)]

\* The settings the instances of the store are constructed with.
TestSettings == [f \in {RequiredFields[n] : n \in 1..4} |-> <<"a">>]

\* The calls, with no call made yet.
NoCalls ==
    /\ database = [i \in Insts |-> FALSE]
    /\ container = [i \in Insts |-> FALSE]
    /\ pc = [c \in Calls |-> "idle"]
    /\ op = [c \in Calls |-> "none"]
    /\ inst = [c \in Calls |-> 1]
    /\ keys = [c \in Calls |-> {}]
    /\ changes = [c \in Calls |-> EmptyMap]
    /\ outcome = [c \in Calls |-> "none"]
    /\ items = [c \in Calls |-> EmptyMap]
    /\ reqs = [c \in Calls |-> EmptyMap]
    /\ sawAbsent = [c \in Calls |-> FALSE]
    /\ absorbed = [c \in Calls |-> FALSE]
    /\ caught = [c \in Calls |-> 0]
    /\ doneBefore = [c \in Calls |-> {}]
    /\ coldStart = [c \in Calls |-> FALSE]
    /\ faults = 0

\* The service before the first call: nothing provisioned, or the collection
\* with the pre-populated record.
ServiceInit ==
    \/ /\ dbExists = FALSE /\ collExists = FALSE
       /\ docs = EmptyMap /\ nextEtag = 1
    \/ /\ dbExists = TRUE /\ collExists = TRUE
       /\ docs = (EscapeKey("k/2") :> SeedDoc) /\ nextEtag = 2

Init ==
    /\ ServiceInit
    /\ NoCalls
    /\ request = NoRequest
    /\ NoPrompt
    /\ given = TRUE /\ settings = TestSettings
    /\ constructed = TRUE /\ error = ConstructorError(TRUE, TestSettings)
    /\ thisSettings = ThisSettings(TestSettings)

\* --------------------------------------------------------------- helpers

\* The call's own state after a step of its code.
Resume(c, next) ==
    /\ pc' = [pc EXCEPT ![c] = next.pc]
    /\ outcome' = [outcome EXCEPT ![c] = next.outcome]
    /\ reqs' = [reqs EXCEPT ![c] = next.reqs]
    /\ sawAbsent' = [sawAbsent EXCEPT ![c] =
                        IF next.pc = "db" THEN ~dbExists
                        ELSE IF next.pc = "coll" THEN ~collExists
                        ELSE FALSE]

\* The eTags a caller can put on an item for key k: none, "", "*", or one a
\* read of k has returned.
KnownETags(k) ==
    {Undefined, "", "*"} \cup
    {items[r][k].eTag : r \in {x \in Calls : k \in DOMAIN items[x]}}

\* The key sets a call is made with: none, or the one key "k/2".
KeySets == SUBSET {"k/2"}

\* The changes call c can be made with. The code copies the payload and never
\* looks into it: the count of every item of call c is c, which no other call
\* writes and the pre-populated record does not hold.
Changes(c) ==
    UNION {{ch \in [S -> [count : {c}, eTag : UNION {KnownETags(k) : k \in S}]] :
               \A k \in S : ch[k].eTag \in KnownETags(k)} : S \in KeySets}

\* The instances are alike until used: a call runs on one already used or on
\* the first one not used yet.
UsableInsts ==
    {i \in Insts : i = 1 \/ \E d \in Calls : pc[d] # "idle" /\ inst[d] >= i - 1}

Startable(c) ==
    /\ pc[c] = "idle"
    /\ \A d \in Calls : d < c => pc[d] # "idle"

\* A call made with nothing to do.
NoInputIgnored(ks) == FALSE

\* !keys || keys.length === 0 (lines 525, 572, 624): no keys or changes, or an
\* empty collection of them.
NoInput(ks) == ks = {}

Begin(c, i, o, ks, ch) ==
    /\ Startable(c)
    /\ i \in UsableInsts
    /\ op' = [op EXCEPT ![c] = o]
    /\ inst' = [inst EXCEPT ![c] = i]
    /\ keys' = [keys EXCEPT ![c] = ks]
    /\ changes' = [changes EXCEPT ![c] = ch]
    /\ doneBefore' = [doneBefore EXCEPT ![c] = {d \in Calls : pc[d] = "done"}]
    /\ coldStart' = [coldStart EXCEPT ![c] = ~dbExists /\ ~collExists]
    /\ IF NoInput(ks)
       THEN Resume(c, [pc |-> "done", outcome |-> "ok", reqs |-> EmptyMap])
       ELSE Resume(c, EnsureContainerExists(o, ks, ch, database[i], container[i]))
    /\ UNCHANGED <<service, handles, items, absorbed, caught, faults, construction, request,
                   prompts, elsewhere, wrap>>

\* --------------------------------------------------------------- actions

\* read(keys)
Read(c, i, ks) == Begin(c, i, "read", ks, EmptyMap)

\* write(changes)
Write(c, i, ch) == Begin(c, i, "write", DOMAIN ch, ch)

\* delete(keys)
Delete(c, i, ks) == Begin(c, i, "delete", ks, EmptyMap)

\* The call's inputs, the instances' handles and the service as they are.
Same(c) == UNCHANGED <<inputs, items, faults, construction, request,
                   prompts, elsewhere, wrap>>

\* databases.createIfNotExists answers with the database (lines 659-662).
DbCreated(c) ==
    /\ pc[c] = "db"
    /\ ~(sawAbsent[c] /\ dbExists)
    /\ dbExists' = TRUE
    /\ database' = [database EXCEPT ![inst[c]] = TRUE]
    /\ Resume(c, EnsureContainer(op[c], keys[c], changes[c], TRUE,
                                 container[inst[c]]))
    /\ UNCHANGED <<collExists, docs, nextEtag, container, absorbed, caught>>
    /\ Same(c)

\* databases.createIfNotExists answers 409: another create came first
\* (lines 663-668). The error is swallowed and this.database stays as it is.
DbConflict(c) ==
    /\ pc[c] = "db"
    /\ sawAbsent[c] /\ dbExists
    /\ absorbed' = [absorbed EXCEPT ![c] = TRUE]
    /\ caught' = [caught EXCEPT ![c] = 409]
    /\ Resume(c, EnsureContainer(op[c], keys[c], changes[c],
                                 database[inst[c]], container[inst[c]]))
    /\ UNCHANGED <<service, handles>>
    /\ Same(c)

\* A failed create of the database that leaves this.database set.
DbFailCached(c) ==
    /\ pc[c] = "db"
    /\ faults < MaxFaults
    /\ faults' = faults + 1
    /\ caught' = [caught EXCEPT ![c] = 500]
    /\ database' = [database EXCEPT ![inst[c]] = TRUE]
    /\ Resume(c, [pc |-> "done", outcome |-> "Error initializing database",
                  reqs |-> EmptyMap])
    /\ UNCHANGED <<service, container, inputs, items, absorbed, construction,
                   request, prompts, elsewhere, wrap>>

\* databases.createIfNotExists fails with another code (lines 665-667).
DbFail(c) ==
    /\ pc[c] = "db"
    /\ faults < MaxFaults
    /\ faults' = faults + 1
    /\ caught' = [caught EXCEPT ![c] = 500]
    /\ Resume(c, [pc |-> "done", outcome |-> "Error initializing database",
                  reqs |-> EmptyMap])
    /\ UNCHANGED <<service, handles, inputs, items, absorbed, construction, request,
                   prompts, elsewhere, wrap>>

\* containers.createIfNotExists answers with the container (lines 681-684).
CollCreated(c) ==
    /\ pc[c] = "coll"
    /\ ~(sawAbsent[c] /\ collExists)
    /\ collExists' = TRUE
    /\ container' = [container EXCEPT ![inst[c]] = TRUE]
    /\ Resume(c, AfterEnsure(op[c], keys[c], changes[c], TRUE))
    /\ UNCHANGED <<dbExists, docs, nextEtag, database, absorbed, caught>>
    /\ Same(c)

\* containers.createIfNotExists answers 409 (lines 691-695): swallowed,
\* this.container stays as it is.
CollConflict(c) ==
    /\ pc[c] = "coll"
    /\ sawAbsent[c] /\ collExists
    /\ absorbed' = [absorbed EXCEPT ![c] = TRUE]
    /\ caught' = [caught EXCEPT ![c] = 409]
    /\ Resume(c, AfterEnsure(op[c], keys[c], changes[c], container[inst[c]]))
    /\ UNCHANGED <<service, handles>>
    /\ Same(c)

\* A failed create reported with the one message whatever its code.
CollFailGeneric(c, code) ==
    /\ pc[c] = "coll"
    /\ faults < MaxFaults
    /\ faults' = faults + 1
    /\ Resume(c, [pc |-> "done", outcome |-> "Error initializing container",
                  reqs |-> EmptyMap])
    /\ caught' = [caught EXCEPT ![c] = code]
    /\ UNCHANGED <<service, handles, inputs, items, absorbed, construction, request,
                   prompts, elsewhere, wrap>>

\* containers.createIfNotExists fails: 400 (lines 687-690) or another code
\* (lines 692-694).
CollFail(c, code) ==
    /\ pc[c] = "coll"
    /\ faults < MaxFaults
    /\ faults' = faults + 1
    /\ Resume(c, [pc |-> "done",
                  outcome |-> IF code = 400
                              THEN "Error initializing container. You might be using partitions"
                              ELSE "Error initializing container",
                  reqs |-> EmptyMap])
    /\ caught' = [caught EXCEPT ![c] = code]
    /\ UNCHANGED <<service, handles, inputs, items, absorbed, construction, request,
                   prompts, elsewhere, wrap>>

\* A result with an entry for every key asked for, empty where nothing is
\* stored.
QueryResultWithNulls(ks) ==
    [k \in ks |-> IF EscapeKey(k) \in DOMAIN docs
                  THEN StoreItem(docs[EscapeKey(k)])
                  ELSE [count |-> -1, eTag |-> Undefined]]

\* The resources a query for the keys returns.
QueryResult(ks) ==
    LET hit == {id \in DOMAIN docs : \E k \in ks : EscapeKey(k) = id}
    IN  [r \in {docs[id].realId : id \in hit} |->
            StoreItem(docs[CHOOSE id \in hit : docs[id].realId = r])]

\* A query whose answer renews the version token of every record it returns.
QueryAnsweredRenewing(c) ==
    /\ pc[c] = "query"
    /\ items' = [items EXCEPT ![c] = QueryResult(keys[c])]
    /\ docs' = [id \in DOMAIN docs |->
                   IF \E k \in keys[c] : EscapeKey(k) = id
                   THEN [docs[id] EXCEPT !._etag = ETagToken(nextEtag)]
                   ELSE docs[id]]
    /\ Resume(c, [pc |-> "done", outcome |-> "ok", reqs |-> EmptyMap])
    /\ UNCHANGED <<dbExists, collExists, nextEtag, handles, inputs, absorbed,
                   caught, faults, construction, request, prompts, elsewhere,
                   wrap>>

\* The query of a read is answered (lines 550-558).
QueryAnswered(c) ==
    /\ pc[c] = "query"
    /\ items' = [items EXCEPT ![c] = QueryResult(keys[c])]
    /\ Resume(c, [pc |-> "done", outcome |-> "ok", reqs |-> EmptyMap])
    /\ UNCHANGED <<service, handles, inputs, absorbed, caught, faults, construction, request,
                   prompts, elsewhere, wrap>>

\* A failed query taken for a query without results.
QueryFailSwallowed(c, code) ==
    /\ pc[c] = "query"
    /\ faults < MaxFaults
    /\ faults' = faults + 1
    /\ Resume(c, [pc |-> "done", outcome |-> "ok", reqs |-> EmptyMap])
    /\ caught' = [caught EXCEPT ![c] = code]
    /\ UNCHANGED <<service, handles, inputs, items, absorbed, construction, request,
                   prompts, elsewhere, wrap>>

\* The query of a read fails (lines 560-567).
QueryFail(c, code) ==
    /\ pc[c] = "query"
    /\ faults < MaxFaults
    /\ faults' = faults + 1
    /\ Resume(c, [pc |-> "done",
                  outcome |-> IF code = 400
                              THEN "Error initializing container. You might be using partitions"
                              ELSE "Error reading from container",
                  reqs |-> EmptyMap])
    /\ caught' = [caught EXCEPT ![c] = code]
    /\ UNCHANGED <<service, handles, inputs, items, absorbed, construction, request,
                   prompts, elsewhere, wrap>>

\* A per-key request of call c is in flight.
InFlight(c, k) == k \in DOMAIN reqs[c] /\ reqs[c][k] = "pending"

\* The per-key callback of a write or delete settles; the call returned before.
Settle(c, k, how) ==
    /\ reqs' = [reqs EXCEPT ![c][k] = how]
    /\ UNCHANGED <<dbExists, collExists, handles, pc, outcome, sawAbsent,
                   absorbed, caught, inputs, items, construction, request,
                   prompts, elsewhere, wrap>>

\* The service stores a document under a fresh version token.
Store(doc) ==
    /\ nextEtag <= MaxEtag
    /\ docs' = [id \in DOMAIN docs \cup {doc.id} |->
                   IF id = doc.id
                   THEN [realId |-> doc.realId, document |-> doc.document,
                         _etag |-> ETagToken(nextEtag)]
                   ELSE docs[id]]
    /\ nextEtag' = nextEtag + 1

\* items.upsert is answered (lines 597-598).
Upserted(c, k) ==
    /\ op[c] = "write" /\ InFlight(c, k)
    /\ WriteBranch(changes[c][k].eTag) = "upsert"
    /\ Store(DocumentChange(k, changes[c][k]))
    /\ Settle(c, k, "ok")
    /\ UNCHANGED faults

\* What the service answers to a replace of id under an access condition.
ReplaceAnswer(id, cond) ==
    IF id \notin DOMAIN docs THEN "e404"
    ELSE IF cond.condition # "*" /\ cond.condition # docs[id]._etag THEN "e412"
    ELSE "ok"

\* item(id).replace is answered (lines 605-611): applied, or rejected with
\* 404 (no such document) or 412 (the IfMatch condition does not hold).
Replaced(c, k) ==
    /\ op[c] = "write" /\ InFlight(c, k)
    /\ WriteBranch(changes[c][k].eTag) = "replace"
    /\ LET ans == ReplaceAnswer(EscapeKey(k), AccessCondition(changes[c][k].eTag))
       IN  /\ IF ans = "ok"
              THEN Store(DocumentChange(k, changes[c][k]))
              ELSE UNCHANGED <<docs, nextEtag>>
           /\ Settle(c, k, ans)
    /\ UNCHANGED faults

\* A delete whose 404 is thrown on like every other error.
DeleteAnswerThrows(found) == IF found THEN "ok" ELSE "e404"

\* How the per-key callback of delete settles on the answer of the service
\* (lines 636-641): a 404 is caught and not thrown again.
DeleteAnswer(found) == IF found THEN "ok" ELSE "notFoundOk"

\* item(id).delete is answered (lines 633-641): the document is removed, or
\* there is none and the 404 is swallowed.
Deleted(c, k) ==
    /\ op[c] = "delete" /\ InFlight(c, k)
    /\ docs' = [id \in DOMAIN docs \ {EscapeKey(k)} |-> docs[id]]
    /\ Settle(c, k, DeleteAnswer(EscapeKey(k) \in DOMAIN docs))
    /\ UNCHANGED <<nextEtag, faults>>

\* A failure that takes back what the call's other requests have stored.
RequestFailUndo(c, k) ==
    /\ InFlight(c, k)
    /\ faults < MaxFaults
    /\ faults' = faults + 1
    /\ Settle(c, k, "e500")
    /\ docs' = [id \in {x \in DOMAIN docs :
                            \A j \in DOMAIN reqs[c] :
                                ~(EscapeKey(j) = x /\ reqs[c][j] = "ok")} |-> docs[id]]
    /\ UNCHANGED nextEtag

\* A failed request that is issued again.
RequestFailRetried(c, k) ==
    /\ InFlight(c, k)
    /\ faults < MaxFaults
    /\ faults' = faults + 1
    /\ Settle(c, k, "pending")
    /\ UNCHANGED <<docs, nextEtag>>

\* An upsert, replace or delete fails in the transport: the callback throws
\* (lines 599-601, 612-614, 636-640) after the call has returned.
RequestFail(c, k) ==
    /\ InFlight(c, k)
    /\ faults < MaxFaults
    /\ faults' = faults + 1
    /\ Settle(c, k, "e500")
    /\ UNCHANGED <<docs, nextEtag>>

\* The service answers a request, or the request fails.
Answer ==
    \/ \E c \in Calls : DbCreated(c) \/ DbConflict(c) \/ DbFail(c)
    \/ \E c \in Calls : CollCreated(c) \/ CollConflict(c)
    \/ \E c \in Calls, code \in {400, 500} : CollFail(c, code)
    \/ \E c \in Calls : QueryAnswered(c)
    \/ \E c \in Calls, code \in {400, 500} : QueryFail(c, code)
    \/ \E c \in Calls, k \in Keys :
          Upserted(c, k) \/ Replaced(c, k) \/ Deleted(c, k) \/ RequestFail(c, k)

Next ==
    \/ \E c \in {d \in Calls : Startable(d)}, i \in UsableInsts, ks \in KeySets :
          Read(c, i, ks)
    \/ \E c \in {d \in Calls : Startable(d)}, i \in UsableInsts :
          \E ch \in Changes(c) : Write(c, i, ch)
    \/ \E c \in {d \in Calls : Startable(d)}, i \in UsableInsts, ks \in KeySets :
          Delete(c, i, ks)
    \/ Answer

Spec == Init /\ [][Next]_vars

\* ------------------------------------------------- calls over several keys
BatchCalls == 2

\* The count of the item call c writes for key k: no other entry of any call
\* carries it.
Count(c, k) == IF k = "k1" THEN c + MaxCalls ELSE c

\* The changes call c can be made with, over any of the keys.
BatchChanges(c) ==
    UNION {{ch \in [S -> [count : {Count(c, k) : k \in S},
                          eTag : UNION {KnownETags(k) : k \in S}]] :
               \A k \in S : ch[k].count = Count(c, k) /\ ch[k].eTag \in KnownETags(k)} :
           S \in SUBSET Keys}

NextBatch ==
    \/ \E c \in {d \in 1..BatchCalls : Startable(d)}, i \in UsableInsts,
          ks \in SUBSET Keys : Read(c, i, ks)
    \/ \E c \in {d \in 1..BatchCalls : Startable(d)}, i \in UsableInsts :
          \E ch \in BatchChanges(c) : Write(c, i, ch)
    \/ \E c \in {d \in 1..BatchCalls : Startable(d)}, i \in UsableInsts,
          ks \in SUBSET Keys : Delete(c, i, ks)
    \/ Answer

SpecBatch == Init /\ [][NextBatch]_vars

\* ------------------------------------------------------------ constructor
\* The strings of at most MaxStrLen pieces out of A.
Strings(A) == UNION {[1..n -> A] : n \in 0..MaxStrLen}

\* Field f with one of the values V, or without the field.
Optional(f, V) == {EmptyMap} \cup {f :> v : v \in V}

\* The settings objects a caller constructs the store with; the empty map
\* stands for the settings of a caller that passes none.
SettingsArgs(passed) ==
    IF ~passed THEN {EmptyMap}
    ELSE
    {se @@ ak @@ di @@ ci @@ pk @@ pv :
        se \in Optional("serviceEndpoint", Strings({" ", "a"})),
        ak \in Optional("authKey", Strings({" ", "a"})),
        di \in Optional("databaseId", Strings({" ", "a"})),
        ci \in Optional("collectionId", Strings({" ", "a"})),
        pk \in Optional("partitionKey",
                        Strings({"/", "id", "realId", "document", "pk"})),
        pv \in Optional("partitionValue", {<<>>, <<"v">>})}

\* The caller has made its settings object; the constructor has not run.
NotConstructed ==
    /\ dbExists = FALSE /\ collExists = FALSE /\ docs = EmptyMap /\ nextEtag = 1
    /\ NoCalls
    /\ given \in BOOLEAN /\ settings \in SettingsArgs(given)
    /\ constructed = FALSE /\ error = "none"
    /\ thisSettings = EmptyMap
    /\ request = NoRequest
    /\ NoPrompt

\* A constructor that provisions the database at once.
ConstructConnects ==
    /\ ~constructed
    /\ constructed' = TRUE
    /\ error' = ConstructorError(given, settings)
    /\ settings' = Assigned(settings).caller
    /\ thisSettings' = IF RequiredError(given, settings) = "none"
                       THEN Assigned(settings).own ELSE EmptyMap
    /\ dbExists' = TRUE
    /\ database' = [database EXCEPT ![1] = TRUE]
    /\ UNCHANGED <<collExists, docs, nextEtag, container, pc, outcome, reqs,
                   sawAbsent, absorbed, caught, inputs, items, faults, given,
                   request, prompts, elsewhere, wrap>>

\* new CosmosDbStorage(settings) (lines 457-522).
Construct ==
    /\ ~constructed
    /\ constructed' = TRUE
    /\ error' = ConstructorError(given, settings)
    /\ settings' = Assigned(settings).caller
    /\ thisSettings' = IF RequiredError(given, settings) = "none"
                       THEN Assigned(settings).own ELSE EmptyMap
    /\ UNCHANGED <<service, handles, pc, outcome, reqs, sawAbsent, absorbed,
                   caught, inputs, items, faults, given, request,
                   prompts, elsewhere, wrap>>

\* The instance issues a request of one kind: what goes out with it of the
\* partition.
Request(kind) ==
    /\ constructed /\ error = "none"
    /\ request = NoRequest
    /\ request' = RequestOf(kind, thisSettings)
    /\ UNCHANGED <<service, handles, pc, outcome, reqs, sawAbsent, absorbed,
                   caught, inputs, items, faults, construction,
                   prompts, elsewhere, wrap>>

NextConstruct ==
    \/ Construct
    \/ \E kind \in {"query", "upsert", "replace", "delete"} : Request(kind)

SpecConstruct == NotConstructed /\ [][NextConstruct]_vars

\* ------------------------------------------------- from construction to use
\* The settings object of the tests, the constructor not yet run.
BeforeFirstUse ==
    /\ ServiceInit
    /\ NoCalls
    /\ given = TRUE /\ settings = TestSettings
    /\ constructed = FALSE /\ error = "none"
    /\ thisSettings = EmptyMap
    /\ request = NoRequest
    /\ NoPrompt

NextFirstUse ==
    \/ Construct
    \/ constructed /\ error = "none" /\ NextBatch

SpecFirstUse == BeforeFirstUse /\ [][NextFirstUse]_vars

\* ------------------------------------------------- the prompt's dialog
\* The attachments a caller passes: an Adaptive Card, and one of another type
\* (adaptiveCardPrompt.test.js line 297).
Cards == {"contentType" :> adaptiveCardType, "contentType" :> "invalidCard"}

\* The AdaptiveCardPromptOptions a caller constructs the prompt with.
PromptArgs ==
    {fm @@ ri @@ mm @@ at @@ cd :
        fm \in Optional("inputFailMessage", {<<"fail">>}),
        ri \in Optional("requiredInputIds", {<<"a">>, <<"b", "a">>}),
        mm \in Optional("missingRequiredInputsMessage", {<<"inputs missing">>}),
        at \in Optional("attemptsBeforeCardRedisplayed", {1, 2}),
        cd \in Optional("card", Cards)}

\* The activities a caller passes as prompt or retryPrompt: {} or one with
\* an attachment.
PromptActivities == {EmptyMap} \cup {"attachments" :> <<c>> : c \in Cards}

\* The PromptOptions beginDialog is called with.
PromptOptions ==
    {pr @@ rp : pr \in Optional("prompt", PromptActivities),
                rp \in Optional("retryPrompt", PromptActivities)}

\* The ids of the inputs of a card, and what a submission holds of them.
InputIds == {"a", "b"}
Submitted ==
    {a @@ b : a \in Optional("a", {<<>>, <<" ">>, <<"x">>}),
              b \in Optional("b", {<<"x">>})}

\* The promptIds of the cards sent so far.
CardsSent == {history.cards[n] : n \in DOMAIN history.cards}

\* The activities a user can reply with: a text message, or the submission
\* of a card that was sent (or of one that carries no promptId), which a
\* channel may accompany with text.
Replies ==
    LET values == [promptId : CardsSent \cup {0}, data : Submitted]
    IN  {"text" :> <<"hi">>}
        \cup {"value" :> v : v \in values}
        \cup {("text" :> <<"hi">>) @@ ("value" :> v) :
                 v \in {w \in values : DOMAIN w.data = InputIds
                                       /\ \A id \in InputIds : w.data[id] = <<"x">>}}

\* The promptIds of the cards among the activities sent.
CardIds(sent) ==
    SelectSeq([n \in DOMAIN sent |->
                  IF Has(sent[n], "attachments")
                  THEN sent[n].attachments[1].promptId ELSE 0],
              LAMBDA id : id # 0)

\* The prompt is constructed; no dialog has begun.
PromptConstructed ==
    /\ dbExists = FALSE /\ collExists = FALSE /\ docs = EmptyMap /\ nextEtag = 1
    /\ NoCalls
    /\ request = NoRequest
    /\ given = TRUE /\ settings = TestSettings
    /\ constructed = TRUE /\ error = ConstructorError(TRUE, TestSettings)
    /\ thisSettings = ThisSettings(TestSettings)
    /\ prompt \in {AdaptiveCardPrompt(v, o) : v \in BOOLEAN, o \in PromptArgs}
    /\ dialog = NoDialog
    /\ turn = NoTurn
    /\ history = [calls |-> 0, cards |-> <<>>]
    /\ elsewhere = NotBegun
    /\ wrap = NoWrap

Storage ==
    <<service, handles, pc, outcome, reqs, sawAbsent, absorbed, caught, inputs,
      items, faults, construction, request>>

\* beginDialog(dc, options) (lines 152-162).
beginDialog(options) ==
    /\ dialog.status = "none"
    /\ LET prompted == onPrompt(prompt, options, FALSE)
       IN  /\ prompt' = [prompt EXCEPT !.promptId = prompted.promptId]
           /\ dialog' = [status |-> IF prompted.error = "none"
                                     THEN "waiting" ELSE "failed",
                         options |-> options,
                         attemptCount |-> 0, result |-> NoValue]
           /\ turn' = [NoTurn EXCEPT
                          !.sent = prompted.sent,
                          !.returned = IF prompted.error = "none"
                                       THEN "EndOfTurn" ELSE prompted.error]
           /\ history' = [calls |-> 0, cards |-> CardIds(prompted.sent)]
    /\ UNCHANGED <<Storage, elsewhere, wrap>>

\* continueDialog(dc) (lines 189-228) on the reply activity; valid is what
\* the validator answers if it is called.
continueDialog(activity, valid) ==
    /\ dialog.status = "waiting"
    /\ history.calls < MaxTurns
    /\ LET recognized == onRecognize(prompt, activity)
           count == attemptCount(dialog)
           ends == isValid(prompt, recognized, valid)
           again == ~ends /\ Redisplay(prompt, dialog.options, count)
           prompted == IF again THEN onPrompt(prompt, dialog.options, TRUE)
                       ELSE [promptId |-> prompt.promptId, sent |-> <<>>,
                             error |-> "none"]
           sent == recognized.sent \o inputFail(prompt, recognized)
                   \o prompted.sent
       IN  /\ prompt' = [prompt EXCEPT !.promptId = prompted.promptId]
           /\ dialog' = [dialog EXCEPT
                            !.attemptCount = count,
                            !.status = IF ends THEN "complete"
                                       ELSE IF prompted.error = "none"
                                       THEN "waiting" ELSE "failed",
                            !.result = IF ends THEN activity.value ELSE @]
           /\ turn' = [activity |-> activity,
                       succeeded |-> recognized.succeeded,
                       validated |-> prompt.validator /\ recognized.succeeded,
                       valid |-> prompt.validator /\ recognized.succeeded
                                 /\ valid,
                       reprompted |-> again,
                       sent |-> sent,
                       returned |-> IF ends THEN "endDialog"
                                    ELSE IF prompted.error = "none"
                                    THEN "EndOfTurn" ELSE prompted.error]
           /\ history' = [calls |-> history.calls + 1,
                          cards |-> history.cards \o CardIds(prompted.sent)]
    /\ UNCHANGED <<Storage, elsewhere, wrap>>

NextPrompt ==
    \/ \E options \in PromptOptions : beginDialog(options)
    \/ \E activity \in Replies :
           \E valid \in IF prompt.validator THEN BOOLEAN ELSE {TRUE} :
               continueDialog(activity, valid)

SpecPrompt == PromptConstructed /\ [][NextPrompt]_vars

\* beginDialog(dc, options) (lines 152-162) of the same prompt instance on
\* the DialogContext of a second conversation: onPrompt assigns
\* this._promptId (line 167) before anything can throw.
beginDialogElsewhere(options) ==
    /\ ~elsewhere.begun
    /\ LET prompted == onPrompt(prompt, options, FALSE)
       IN  /\ prompt' = [prompt EXCEPT !.promptId = prompted.promptId]
           /\ elsewhere' = [begun |-> TRUE, cards |-> CardIds(prompted.sent)]
    /\ UNCHANGED <<Storage, dialog, turn, history, wrap>>

\* The options the shared prompt is constructed with: the messages are the
\* defaults.
SharedArgs ==
    {ri @@ at @@ cd :
        ri \in Optional("requiredInputIds", {<<"a">>}),
        at \in Optional("attemptsBeforeCardRedisplayed", {1}),
        cd \in Optional("card", Cards)}

\* The shared prompt is constructed; no dialog has begun in either
\* conversation.
SharedConstructed ==
    /\ dbExists = FALSE /\ collExists = FALSE /\ docs = EmptyMap /\ nextEtag = 1
    /\ NoCalls
    /\ request = NoRequest
    /\ given = TRUE /\ settings = TestSettings
    /\ constructed = TRUE /\ error = ConstructorError(TRUE, TestSettings)
    /\ thisSettings = ThisSettings(TestSettings)
    /\ prompt \in {AdaptiveCardPrompt(v, o) : v \in BOOLEAN, o \in SharedArgs}
    /\ dialog = NoDialog
    /\ turn = NoTurn
    /\ history = [calls |-> 0, cards |-> <<>>]
    /\ elsewhere = NotBegun
    /\ wrap = NoWrap

\* One prompt instance, registered once, serving two conversations.
NextShared ==
    \/ NextPrompt
    \/ \E options \in PromptOptions : beginDialogElsewhere(options)

SpecShared == SharedConstructed /\ [][NextShared]_vars

\* ---------------------------------------------------- a caught error
\* The messages of the backing store's errors.
Messages == Strings({"a", "\""})

\* What a request of the backing store throws.
Errs ==
    {[kind |-> "Error", message |-> m] : m \in Messages}
    \cup {[kind |-> "object", body |-> b] :
             b \in {BodyWith(m) : m \in Messages} \cup {<<"{}">>, <<"Not Found">>}}
    \cup {[kind |-> "object"]}
    \cup {[kind |-> "string", value |-> m] : m \in Messages}
    \cup {[kind |-> "undefined"]}

\* The context messages of the catch blocks.
Contexts ==
    {<<"Error initializing database">>, <<"Error initializing container">>,
     <<"Error reading from container">>, <<"Error upserting document">>,
     <<"Error replacing document">>, <<"Unable to delete document">>}

\* A catch block holds the error a request threw.
ErrorCaught ==
    /\ dbExists = FALSE /\ collExists = FALSE /\ docs = EmptyMap /\ nextEtag = 1
    /\ NoCalls
    /\ request = NoRequest
    /\ given = TRUE /\ settings = TestSettings
    /\ constructed = TRUE /\ error = ConstructorError(TRUE, TestSettings)
    /\ thisSettings = ThisSettings(TestSettings)
    /\ prompt = AdaptiveCardPrompt(FALSE, EmptyMap)
    /\ dialog = NoDialog
    /\ turn = NoTurn
    /\ history = [calls |-> 0, cards |-> <<>>]
    /\ elsewhere = NotBegun
    /\ wrap \in {[NoWrap EXCEPT !.err = e, !.left = e, !.message = m] :
                    e \in Errs, m \in Contexts}

\* throw this.errWithNewMessage(err, message) (lines 563-566, 600, 613, 639,
\* 666, 688-693).
Wrap ==
    /\ ~wrap.done
    /\ LET result == errWithNewMessage(wrap.err, wrap.message)
       IN  wrap' = [wrap EXCEPT !.done = TRUE, !.left = result.left,
                                !.handed = result.handed]
    /\ UNCHANGED <<Storage, prompts, elsewhere>>

NextWrap == Wrap

SpecWrap == ErrorCaught /\ [][NextWrap]_vars

\* ---------------------------------------------------------------- claims

Returned(c) == pc[c] = "done"

\* Write call w has an entry for k.
Writes(w, k) == op[w] = "write" /\ k \in DOMAIN changes[w]

\* No call other than those of `but` writes or deletes key k.
OnlyWriters(but, k) ==
    \A x \in Calls \ but :
        /\ op[x] = "write" => k \notin DOMAIN changes[x]
        /\ op[x] = "delete" => k \notin keys[x]

\* The per-key callback of w for k has thrown.
Rejected(w, k) ==
    k \in DOMAIN reqs[w] /\ reqs[w][k] \in {"e404", "e412", "e500", "eType", "eEmpty"}

\* C1: when the replace of a write entry is rejected because its eTag is not
\* the stored version (412), write fails towards its caller with the error of
\* the replace, and the stored records are unchanged.
C1_StaleWriteFails ==
    [][\A w \in Calls, k \in Keys :
          (Writes(w, k) /\ InFlight(w, k) /\ reqs'[w][k] = "e412")
          => (docs' = docs /\ outcome'[w] = "Error replacing document")]_vars

\* C2: of two writes that carry the same version token for a key, at most one
\* is applied; the other one's replace is not applied and its payload is not
\* the stored one.
C2_NoLostUpdate ==
    \A w1, w2 \in Calls, k \in Keys :
        (/\ w1 # w2 /\ Writes(w1, k) /\ Writes(w2, k)
         /\ WriteBranch(changes[w1][k].eTag) = "replace"
         /\ changes[w1][k].eTag = changes[w2][k].eTag
         /\ k \in DOMAIN reqs[w1] /\ reqs[w1][k] = "ok")
        => /\ k \in DOMAIN reqs[w2] => reqs[w2][k] # "ok"
           /\ EscapeKey(k) \in DOMAIN docs
                 => docs[EscapeKey(k)].document # ChangesCopy(changes[w2][k])

\* Two writes with the same version token: one applied, the other rejected.
C2_Witness ==
    \E w1, w2 \in Calls, k \in Keys :
        /\ w1 # w2 /\ Writes(w1, k) /\ Writes(w2, k)
        /\ WriteBranch(changes[w1][k].eTag) = "replace"
        /\ changes[w1][k].eTag = changes[w2][k].eTag
        /\ k \in DOMAIN reqs[w1] /\ reqs[w1][k] = "ok"
        /\ k \in DOMAIN reqs[w2] /\ reqs[w2][k] = "e412"

\* C3: a write that has returned successfully has applied every entry, and a
\* write one of whose entries failed has failed towards its caller with a
\* write error.
C3_WriteAppliesOrFails ==
    \A w \in Calls :
        (op[w] = "write" /\ Returned(w))
        => /\ outcome[w] = "ok"
                 => \A k \in DOMAIN changes[w] :
                        k \in DOMAIN reqs[w] /\ reqs[w][k] = "ok"
           /\ (\E k \in DOMAIN changes[w] : Rejected(w, k))
                 => outcome[w] \in {"Error upserting document",
                                    "Error replacing document"}

\* C4: a read of k that was started after write({k: item}), item without an
\* eTag, had returned, with no other write or delete of k, returns for k the
\* fields of item and a non-empty eTag.
C4_ReadAfterWrite ==
    \A w, r \in Calls, k \in Keys :
        (/\ Writes(w, k) /\ DOMAIN changes[w] = {k}
         /\ changes[w][k].eTag = Undefined
         /\ Returned(w) /\ outcome[w] = "ok"
         /\ op[r] = "read" /\ k \in keys[r] /\ w \in doneBefore[r]
         /\ Returned(r) /\ outcome[r] = "ok"
         /\ OnlyWriters({w}, k) /\ faults = 0)
        => /\ k \in DOMAIN items[r]
           /\ items[r][k].count = changes[w][k].count
           /\ items[r][k].eTag \notin {"", Undefined}

\* C5: an item read by r1, changed and written back by w with the eTag it was
\* read with, no other write or delete of k: w succeeds, and a read r2 started
\* after w returned gives the changed fields and another eTag.
C5_UpdateThenRead ==
    \A r1, w, r2 \in Calls, k \in Keys :
        (/\ op[r1] = "read" /\ Returned(r1) /\ k \in DOMAIN items[r1]
         /\ Writes(w, k) /\ r1 \in doneBefore[w] /\ Returned(w)
         /\ changes[w][k].eTag = items[r1][k].eTag
         /\ changes[w][k].count # items[r1][k].count
         /\ op[r2] = "read" /\ k \in keys[r2] /\ w \in doneBefore[r2]
         /\ Returned(r2) /\ outcome[r2] = "ok"
         /\ OnlyWriters({w}, k) /\ faults = 0)
        => /\ outcome[w] = "ok"
           /\ k \in DOMAIN items[r2]
           /\ items[r2][k].count = changes[w][k].count
           /\ items[r2][k].eTag # items[r1][k].eTag

\* C6: a write entry whose eTag is "*" or absent succeeds whatever is stored:
\* with no failure of the transport the write returns successfully with the
\* entry's request issued, and the request's answer leaves the entry's payload
\* stored.
C6_WildcardAlwaysWrites ==
    [][\A w \in Calls, k \in Keys :
          (/\ op'[w] = "write" /\ k \in DOMAIN changes'[w]
           /\ changes'[w][k].eTag \in {"*", Undefined}
           /\ faults' = 0 /\ pc'[w] = "done")
          => /\ outcome'[w] = "ok"
             /\ k \in DOMAIN reqs'[w] /\ reqs'[w][k] \in {"pending", "ok"}
             /\ (InFlight(w, k) /\ reqs'[w][k] # "pending")
                   => /\ EscapeKey(k) \in DOMAIN docs'
                      /\ docs'[EscapeKey(k)].document = ChangesCopy(changes[w][k])]_vars

\* C7: a write entry whose eTag is the empty string makes write fail with
\* "etag empty", and no request is issued for it.
C7_EmptyETagFails ==
    \A w \in Calls, k \in Keys :
        (Writes(w, k) /\ changes[w][k].eTag = "" /\ k \in DOMAIN reqs[w])
        => (outcome[w] = "etag empty" /\ reqs[w][k] = "eEmpty")

\* C8: a call whose provisioning got "already exists" (409) from a create
\* request does not fail because of it: with no failure of the transport it
\* returns successfully and has issued its data requests.
C8_ConflictAbsorbed ==
    \A c \in Calls :
        (absorbed[c] /\ Returned(c) /\ faults = 0)
        => (outcome[c] = "ok" /\ \A k \in DOMAIN reqs[c] : reqs[c][k] # "eType")

\* C9: two instances whose first calls overlap and started while neither
\* resource existed: with no failure of the transport both calls complete
\* successfully, with their data requests issued.
C9_ConcurrentFirstUse ==
    \A c1, c2 \in Calls :
        (/\ c1 < c2 /\ inst[c1] # inst[c2]
         /\ coldStart[c1] /\ coldStart[c2] /\ c1 \notin doneBefore[c2]
         /\ \A d \in Calls : d < c2 /\ d # c1 => pc[d] = "idle" \/ keys[d] = {}
         /\ keys[c1] # {} /\ keys[c2] # {}
         /\ Returned(c1) /\ Returned(c2) /\ faults = 0)
        => \A c \in {c1, c2} :
              /\ outcome[c] = "ok"
              /\ \A k \in DOMAIN reqs[c] : reqs[c][k] \in {"pending", "ok", "notFoundOk"}

\* C10: a read of k started after a delete of k had returned, with no write
\* of k, has no entry for k.
C10_ReadAfterDelete ==
    \A d, r \in Calls, k \in Keys :
        (/\ op[d] = "delete" /\ k \in keys[d] /\ Returned(d) /\ outcome[d] = "ok"
         /\ op[r] = "read" /\ k \in keys[r] /\ d \in doneBefore[r]
         /\ Returned(r) /\ outcome[r] = "ok"
         /\ \A x \in Calls : ~Writes(x, k)
         /\ faults = 0)
        => k \notin DOMAIN items[r]

\* C11: when the service answers the delete of a key that has no stored record,
\* the per-key callback does not throw, the delete has completed without error
\* and the stored records are unchanged; after any answered delete of a key its
\* record is absent and every other record is as it was, so that a second
\* delete of the key leaves what the first one left.
C11_DeleteAbsentIsNoError ==
    [][\A d \in Calls, k \in Keys :
          (/\ op[d] = "delete" /\ InFlight(d, k)
           /\ reqs'[d][k] # "pending" /\ faults' = faults)
          => /\ EscapeKey(k) \notin DOMAIN docs'
             /\ \A id \in DOMAIN docs' : id \in DOMAIN docs /\ docs'[id] = docs[id]
             /\ EscapeKey(k) \notin DOMAIN docs
                   => /\ docs' = docs
                      /\ reqs'[d][k] = "notFoundOk"
                      /\ outcome'[d] = "ok"]_vars

\* Two deletes of the same key, both answered: the first removed the record,
\* the second found none.
C11_Witness ==
    \E d1, d2 \in Calls, k \in Keys :
        /\ d1 # d2 /\ op[d1] = "delete" /\ op[d2] = "delete"
        /\ k \in DOMAIN reqs[d1] /\ reqs[d1][k] = "ok"
        /\ k \in DOMAIN reqs[d2] /\ reqs[d2][k] = "notFoundOk"
        /\ outcome[d1] = "ok" /\ outcome[d2] = "ok"

\* C12: a delete whose point-delete of a key failed with an error other than
\* 404 has failed towards its caller with the delete error.
C12_DeleteFailureReported ==
    \A d \in Calls, k \in Keys :
        (op[d] = "delete" /\ k \in DOMAIN reqs[d] /\ reqs[d][k] = "e500")
        => outcome[d] = "Unable to delete document"

\* C13: a read whose query is answered returns successfully with exactly the
\* requested keys that have a stored record, each with the stored fields: a
\* key without a record has no entry. A read fails only after a request of
\* its own has thrown.
C13_MissingKeyNoEntry ==
    [][\A r \in Calls :
          /\ (pc[r] = "query" /\ pc'[r] = "done" /\ faults' = faults)
             => /\ outcome'[r] = "ok"
                /\ DOMAIN items'[r] = {k \in keys[r] : EscapeKey(k) \in DOMAIN docs}
                /\ \A k \in DOMAIN items'[r] :
                      /\ items'[r][k].count = docs[EscapeKey(k)].document.count
                      /\ items'[r][k].eTag = docs[EscapeKey(k)]._etag
          /\ (op'[r] = "read" /\ pc'[r] = "done" /\ outcome'[r] # "ok")
             => caught'[r] # 0]_vars

\* A read of both keys returned the one that is stored and nothing for the
\* other.
C13_Witness ==
    \E r \in Calls :
        /\ op[r] = "read" /\ keys[r] = Keys /\ Returned(r) /\ outcome[r] = "ok"
        /\ DOMAIN items[r] = {"k/2"}
        /\ "k1" \notin DOMAIN docs

\* C14: a read, write or delete made with no keys or changes returns
\* successfully at once: it issues no request and leaves the service, the
\* instance's handles and the failure count as they are.
C14_EmptyInputNoRequest ==
    [][\A c \in Calls :
          (pc[c] = "idle" /\ pc'[c] # "idle" /\ keys'[c] = {})
          => /\ pc'[c] = "done" /\ outcome'[c] = "ok"
             /\ reqs'[c] = EmptyMap /\ items'[c] = EmptyMap
             /\ UNCHANGED <<service, handles, faults>>]_vars

\* A read, a write and a delete with empty input have returned, with nothing
\* provisioned.
C14_Witness ==
    \E r, w, d \in Calls :
        /\ op[r] = "read" /\ op[w] = "write" /\ op[d] = "delete"
        /\ \A c \in {r, w, d} : Returned(c) /\ keys[c] = {} /\ outcome[c] = "ok"
        /\ ~dbExists
        /\ \A i \in Insts : ~database[i] /\ ~container[i]

\* C15: when the request for one key of a write or delete fails, the stored
\* records are unchanged, and the request for every other key of the call has
\* been issued and is as it was.
C15_KeysIndependent ==
    [][\A c \in Calls, k \in Keys :
          (/\ op[c] \in {"write", "delete"} /\ InFlight(c, k)
           /\ reqs'[c][k] \in {"e404", "e412", "e500"})
          => /\ docs' = docs
             /\ \A j \in keys[c] \ {k} :
                   /\ j \in DOMAIN reqs[c]
                   /\ reqs[c][j] \in {"pending", "ok", "notFoundOk",
                                      "e404", "e412", "e500"}
                   /\ reqs'[c][j] = reqs[c][j]]_vars

\* A write of two keys: the request of one failed, the other one's payload is
\* stored.
C15_Witness ==
    \E w \in Calls :
        /\ op[w] = "write" /\ keys[w] = Keys /\ DOMAIN reqs[w] = Keys
        /\ reqs[w]["k1"] = "e500" /\ reqs[w]["k/2"] = "ok"
        /\ EscapeKey("k/2") \in DOMAIN docs
        /\ docs[EscapeKey("k/2")].document = ChangesCopy(changes[w]["k/2"])

\* The names of the fields of a stored document.
Reserved == {<<"id">>, <<"realId">>, <<"document">>}

\* A partition key without its leading "/".
StripSeparator(pk) == IF pk # <<>> /\ Head(pk) = "/" THEN Tail(pk) ELSE pk

\* C16: a constructor given a partitionKey that names id, realId or document,
\* with or without the leading "/", throws; and no instance has a
\* partitionKey that names one of them.
C16_ReservedPartitionKeyRejected ==
    /\ (/\ constructed /\ "partitionKey" \in DOMAIN settings
        /\ StripSeparator(settings.partitionKey) \in Reserved)
       => error # "none"
    /\ (constructed /\ error = "none" /\ "partitionKey" \in DOMAIN thisSettings)
       => StripSeparator(thisSettings.partitionKey) \notin Reserved

\* Every piece of the string is a blank: the empty string included.
WhitespaceOnly(str) == \A n \in 1..Len(str) : str[n] = " "

\* C17: the constructor throws when there is no settings object or when one
\* of serviceEndpoint, authKey, databaseId, collectionId is missing, empty or
\* whitespace only, and the error names the first such field; it returns only
\* when all four are there and not blank.
C17_RequiredSettings ==
    constructed =>
        LET blank == {n \in 1..4 : \/ RequiredFields[n] \notin DOMAIN settings
                                   \/ WhitespaceOnly(settings[RequiredFields[n]])}
            messages == <<"The settings service Endpoint is required.",
                          "The settings authKey is required.",
                          "The settings dataBase ID is required.",
                          "The settings collection ID is required.">>
        IN  /\ ~given => error = "The settings parameter is required."
            /\ (given /\ blank # {})
                  => error = messages[CHOOSE n \in blank : \A m \in blank : n <= m]
            /\ error = "none" => given /\ blank = {}

\* The constructor threw for a collectionId of blanks after three good fields.
C17_Witness ==
    /\ constructed /\ given
    /\ \A n \in 1..3 : RequiredFields[n] \in DOMAIN settings
                       /\ settings[RequiredFields[n]] = <<" ", "a">>
    /\ "collectionId" \in DOMAIN settings
    /\ settings.collectionId = <<" ", " ">>
    /\ error = "The settings collection ID is required."

\* C18: a read of a key with illegal characters, started after a write of an
\* item for it had returned, no other write or delete of the key: the entry is
\* under the caller's key and not under the escaped one, with the written
\* fields, and no other key of the result carries them.
C18_IllegalKeyRoundTrip ==
    \A w, r \in Calls, k \in Keys :
        (/\ EscapeKey(k) # k
         /\ Writes(w, k) /\ changes[w][k].eTag \in {Undefined, "*"}
         /\ Returned(w) /\ outcome[w] = "ok"
         /\ op[r] = "read" /\ k \in keys[r] /\ w \in doneBefore[r]
         /\ Returned(r) /\ outcome[r] = "ok"
         /\ OnlyWriters({w}, k) /\ faults = 0)
        => /\ k \in DOMAIN items[r]
           /\ EscapeKey(k) \notin DOMAIN items[r]
           /\ items[r][k].count = changes[w][k].count
           /\ \A j \in DOMAIN items[r] \ {k} : items[r][j].count # changes[w][k].count

\* The message of the error for a code 400.
SchemaMismatch == "Error initializing container. You might be using partitions"

C22_PartitionKeyNormalised ==
    [][(~constructed /\ constructed')
       => /\ settings' = settings
          /\ (error' = "none" /\ "partitionKey" \in DOMAIN settings)
                => /\ "partitionKey" \in DOMAIN thisSettings'
                   /\ thisSettings'.partitionKey =
                         IF settings.partitionKey = <<>> THEN <<>>
                         ELSE <<"/">> \o StripSeparator(settings.partitionKey)
          /\ (error' = "none" /\ "partitionKey" \notin DOMAIN settings)
                => "partitionKey" \notin DOMAIN thisSettings']_vars

\* An instance made with the partitionKey "/pk": the key is as given.
C22_Witness ==
    /\ constructed /\ error = "none"
    /\ "partitionKey" \in DOMAIN settings /\ settings.partitionKey = <<"/", "pk">>
    /\ thisSettings.partitionKey = <<"/", "pk">>

\* Call c has a request out.
Requesting(c) ==
    \/ pc[c] \in {"db", "coll", "query"}
    \/ \E k \in DOMAIN reqs[c] : reqs[c][k] = "pending"

\* C23: the constructor leaves the service as it is, both handles unset and
\* no request out; and as long as no read, write or delete with input has
\* been made the service stays as it is, the handles unset and no request out.
C23_NoRequestBeforeFirstUse ==
    [][((~constructed /\ constructed') \/ \A c \in Calls : keys'[c] = {})
       => /\ UNCHANGED service
          /\ \A i \in Insts : ~database'[i] /\ ~container'[i]
          /\ \A c \in Calls : ~Requesting(c)']_vars

\* After the constructor and a call without input, the first call with input
\* has the first request out.
C23_Witness ==
    \E c1, c2 \in Calls :
        /\ constructed
        /\ c1 < c2 /\ Returned(c1) /\ keys[c1] = {}
        /\ keys[c2] # {} /\ pc[c2] = "db" /\ ~dbExists

Replied == history'.calls = history.calls + 1

\* The promptId of the card most recently sent, 0 when none was.
LastCard ==
    IF history.cards = <<>> THEN 0 ELSE history.cards[Len(history.cards)]

\* A card is among the activities.
CardSent(sent) == \E n \in DOMAIN sent : Has(sent[n], "attachments")

\* The string has a character that is not white space.
NonBlank(str) == \E n \in DOMAIN str : str[n] # " "

\* The submission holds a non-blank string for the input.
Filled(value, id) == Has(value.data, id) /\ NonBlank(value.data[id])

\* The PromptOptions hold a retryPrompt, or the attempts made are a multiple
\* of attemptsBeforeCardRedisplayed.
RetryDue ==
    \/ Has(dialog.options, "retryPrompt")
    \/ dialog.attemptCount % prompt.attemptsBeforeCardRedisplayed = 0

\* The card a retry displays: the attachment of the retryPrompt (of the
\* prompt when there is no retryPrompt), else the constructor's card.
RetryCard ==
    LET activity == IF Has(dialog.options, "retryPrompt")
                    THEN dialog.options.retryPrompt ELSE dialog.options.prompt
    IN  IF Has(activity, "attachments") THEN activity.attachments[1]
        ELSE IF prompt.card # <<>> THEN prompt.card[1]
        ELSE EmptyMap

RetryCardAdaptive ==
    Has(RetryCard, "contentType") /\ RetryCard.contentType = adaptiveCardType

RetryError ==
    "No Adaptive Card provided. Include in the constructor or PromptOptions.retryPrompt.attachments[0]"

FailSent(sent) ==
    \E n \in DOMAIN sent : sent[n] = ("text" :> prompt.inputFailMessage)

C27_RecognitionAndMissingIds ==
    [][Replied
       => LET a == turn'.activity
              fromCard == /\ ~Has(a, "text") /\ Has(a, "value")
                          /\ a.value.promptId = prompt.promptId
              ids == prompt.requiredInputIds
              m == prompt.missingRequiredInputsMessage
          IN  /\ turn'.succeeded
                 <=> fromCard /\ \A n \in DOMAIN ids : Filled(a.value, ids[n])
              /\ fromCard /\ (\E n \in DOMAIN ids : ~Filled(a.value, ids[n]))
                 => LET missing == SelectSeq(ids, LAMBDA id : ~Filled(a.value, id))
                    IN  /\ turn'.sent # <<>>
                        /\ Has(turn'.sent[1], "text")
                        /\ Len(turn'.sent[1].text) = Len(m) + 2 * Len(missing)
                        /\ SubSeq(turn'.sent[1].text, 1, Len(m)) = m
                        /\ turn'.sent[1].text[Len(m) + 1] = ": "
                        /\ \A n \in DOMAIN missing :
                               turn'.sent[1].text[Len(m) + 2 * n] = missing[n]
                        /\ \A n \in 1..(Len(missing) - 1) :
                               turn'.sent[1].text[Len(m) + 2 * n + 1] = ", "]_vars

\* The submission of the current card with both required inputs blank or
\* absent: the reply names both, in the order of requiredInputIds.
C27_Witness ==
    /\ prompt.requiredInputIds = <<"b", "a">>
    /\ ~turn.succeeded
    /\ turn.sent # <<>>
    /\ turn.sent[1] = ("text" :> <<"The following inputs are required", ": ",
                                   "b", ", ", "a">>)
    /\ Has(turn.activity, "value")
    /\ Has(turn.activity.value.data, "a")
    /\ turn.activity.value.data["a"] = <<" ">>

\* C28: attemptCount is the number of continueDialog calls since beginDialog:
\* unset (0) after beginDialog, 1 after the first reply, one more with each
\* reply whether or not it was recognized or the card was sent again.
C28_AttemptCountCountsReplies ==
    dialog.status # "none" => dialog.attemptCount = history.calls

\* The second reply, recognized and turned down by the validator, after the
\* card was sent twice.
C28_Witness ==
    /\ history.calls = 2
    /\ dialog.attemptCount = 2
    /\ turn.succeeded /\ ~turn.valid
    /\ Len(history.cards) = 2
    /\ dialog.status = "waiting"

\* The card beginDialog displays: the attachment of options.prompt, else the
\* constructor's card; EmptyMap when there is none.
FirstCard ==
    IF Has(dialog.options, "prompt")
       /\ Has(dialog.options.prompt, "attachments")
    THEN dialog.options.prompt.attachments[1]
    ELSE IF prompt.card # <<>> THEN prompt.card[1]
    ELSE EmptyMap

\* The error the tests expect for a card of another content type
\* (adaptiveCardPrompt.test.js lines 310-312).
NotAdaptiveCard ==
    "Attachment is not a valid Adaptive Card.\nEnsure card.contentType is 'application/vnd.microsoft.card.adaptive'\nand card.content contains the card json"

NoCardProvided ==
    "No Adaptive Card provided. Include in the constructor or PromptOptions.prompt.attachments[0]"

\* C29: beginDialog with a card whose contentType is not the Adaptive Card
\* type fails with the "Attachment is not a valid Adaptive Card" error, with
\* no card given it fails with the "No Adaptive Card provided" error, and in
\* both cases no card is sent.
C29_InvalidCardError ==
    dialog.status # "none" /\ history.calls = 0
    => /\ FirstCard # EmptyMap /\ FirstCard.contentType # adaptiveCardType
          => turn.returned = NotAdaptiveCard /\ ~CardSent(turn.sent)
       /\ FirstCard = EmptyMap
          => turn.returned = NoCardProvided /\ ~CardSent(turn.sent)

\* ------------------------------------------------- claims on provisioning

\* The step in which call c issues the create request of the database / of
\* the collection.
IssuesDb(c) == pc[c] # "db" /\ pc'[c] = "db"
IssuesColl(c) == pc[c] # "coll" /\ pc'[c] = "coll"

\* While no request has failed: instance i has issued a database create
\* request (it is awaited, was answered with the database, or was answered
\* 409), a collection create request.
DbRequested(i) ==
    \/ database[i]
    \/ \E d \in Calls : /\ pc[d] # "idle" /\ inst[d] = i
                        /\ (pc[d] = "db" \/ absorbed[d])
CollRequested(i) ==
    \/ container[i]
    \/ \E d \in Calls : /\ pc[d] # "idle" /\ inst[d] = i
                        /\ \/ pc[d] = "coll"
                           \/ /\ absorbed[d] /\ pc[d] = "done"
                              /\ outcome[d] # "Error initializing container"

\* C31: with every call made on one store instance and no request failing,
\* the database create request and the collection create request are each
\* issued at most once, however the calls interleave.
C31_CreateIssuedOnce ==
    [][\A c \in Calls :
          (faults' = 0 /\ \A d \in Calls : inst'[d] = 1)
          => /\ IssuesDb(c) => ~DbRequested(1)
             /\ IssuesColl(c) => ~CollRequested(1)]_vars

\* The step in which call c assigns this.database / this.container: its
\* create request is answered and nothing is caught (lines 661, 683).
AssignsDb(c) == pc[c] = "db" /\ pc'[c] # "db" /\ caught'[c] = caught[c]
AssignsColl(c) == pc[c] = "coll" /\ pc'[c] # "coll" /\ caught'[c] = caught[c]

\* C32: once both handles of an instance are set they are never unset and
\* never assigned again, and no call on the instance issues a database or
\* collection create request from then on.
C32_HandlesCached ==
    [][\A i \in Insts :
          (database[i] /\ container[i])
          => /\ database'[i] /\ container'[i]
             /\ \A c \in Calls :
                   inst[c] = i => ~AssignsDb(c) /\ ~AssignsColl(c)
             /\ \A c \in Calls :
                   inst'[c] = i => ~IssuesDb(c) /\ ~IssuesColl(c)]_vars

\* The step in which call c issues a data request: the query of a read, or
\* the upsert, replace or delete of a key.
IssuesData(c) ==
    \/ pc[c] # "query" /\ pc'[c] = "query"
    \/ \E k \in DOMAIN reqs'[c] : reqs'[c][k] = "pending" /\ ~InFlight(c, k)

\* The step in which a create request of call c fails with an error that is
\* not "already exists".
ProvisioningFails(c) ==
    pc[c] \in {"db", "coll"} /\ caught'[c] \notin {0, 409} /\ pc'[c] # pc[c]

\* C33: a call issues a data request only with non-empty input and once its
\* ensureContainerExists has finished, both handles of its instance set; a
\* call whose provisioning fails fails, with no data request then or later;
\* the collection create request is issued only when a database create request
\* of the instance has succeeded.
C33_DataAfterProvisioning ==
    [][\A c \in Calls :
          /\ IssuesData(c)
             => /\ keys'[c] # {}
                /\ pc[c] \in {"idle", "db", "coll"}
                /\ pc'[c] \notin {"db", "coll"}
                /\ database'[inst'[c]] /\ container'[inst'[c]]
          /\ ProvisioningFails(c)
             => /\ pc'[c] = "done"
                /\ outcome'[c] \in {"Error initializing database",
                                    "Error initializing container",
                                    "Error initializing container. You might be using partitions"}
                /\ reqs'[c] = EmptyMap
          /\ (pc[c] = "done" /\ outcome[c] # "ok")
             => ~IssuesData(c) /\ outcome'[c] = outcome[c]
          /\ IssuesColl(c) => database'[inst'[c]]]_vars

\* A write that found neither resource has its request in flight, both
\* handles of its instance set.
C33_Witness ==
    \E c \in Calls, k \in Keys :
        /\ op[c] = "write" /\ coldStart[c] /\ InFlight(c, k)
        /\ database[inst[c]] /\ container[inst[c]]
        /\ \A d \in Calls : d # c => pc[d] = "idle"

\* ------------------------------------------------------ claims on write

StartsWith(str, pre) ==
    Len(str) >= Len(pre) /\ SubSeq(str, 1, Len(pre)) = pre

\* C35: whatever the backing store threw (an Error, an object with a JSON
\* body, any other value), errWithNewMessage returns an error whose message
\* starts with the context message and whose original is what the backing
\* store threw, with the message it was thrown with.
C35_OriginalPreserved ==
    wrap.done
    => /\ wrap.handed.threw = "none"
       /\ StartsWith(wrap.handed.message, wrap.message)
       /\ wrap.handed.original = wrap.err
       /\ wrap.left = wrap.err

\* ---------------------------------------------------- claims on requests

\* C36: no request is retried. The per-key requests of a write or delete are
\* those issued when the call returns, one per entry or key; a request that
\* was answered, failed or was rejected stays as it settled and is not issued
\* again; the failure of a request settles it; a read issues its query once.
C36_NoRetry ==
    [][/\ \A c \in Calls :
             /\ DOMAIN reqs[c] # {} => DOMAIN reqs'[c] = DOMAIN reqs[c]
             /\ DOMAIN reqs'[c] \subseteq keys'[c]
             /\ \A k \in DOMAIN reqs[c] :
                   reqs[c][k] # "pending"
                   => k \in DOMAIN reqs'[c] /\ reqs'[c][k] = reqs[c][k]
             /\ pc[c] = "query" => pc'[c] \in {"query", "done"}
             /\ pc[c] = "done" => pc'[c] = "done"
       /\ (faults' # faults /\ pc' = pc)
          => \E c \in Calls, k \in Keys :
                 InFlight(c, k) /\ reqs'[c][k] = "e500"]_vars

\* The replace of a write was rejected for a version mismatch: it stays
\* rejected, the record is the one another write has stored.
C36_Witness ==
    \E c, d \in Calls, k \in Keys :
        /\ Writes(c, k) /\ k \in DOMAIN reqs[c] /\ reqs[c][k] = "e412"
        /\ Writes(d, k) /\ k \in DOMAIN reqs[d] /\ reqs[d][k] = "ok"
        /\ docs[EscapeKey(k)].document = [count |-> d]

\* C37: the request of a write entry with a non-empty eTag other than "*",
\* answered while its key has no stored record, is rejected as the replace of
\* a missing document (404), and whether it is answered or fails the key has
\* no record after it.
C37_ReplaceNeverCreates ==
    [][\A c \in Calls, k \in Keys :
          (/\ Writes(c, k) /\ changes[c][k].eTag \notin {Undefined, "", "*"}
           /\ InFlight(c, k) /\ reqs'[c][k] # "pending"
           /\ EscapeKey(k) \notin DOMAIN docs)
          => /\ EscapeKey(k) \notin DOMAIN docs'
             /\ docs' = docs
             /\ faults' = faults => reqs'[c][k] = "e404"]_vars

\* The record was deleted after a read had returned its eTag; the write made
\* with that eTag was rejected and the key has no record.
C37_Witness ==
    \E c \in Calls, k \in Keys :
        /\ Writes(c, k) /\ changes[c][k].eTag \notin {Undefined, "", "*"}
        /\ k \in DOMAIN reqs[c] /\ reqs[c][k] = "e404"
        /\ EscapeKey(k) \notin DOMAIN docs

\* ------------------------------------------- claims on failed provisioning
\* The messages of a call that failed in ensureContainerExists.
InitErrors ==
    {"Error initializing database", "Error initializing container",
     "Error initializing container. You might be using partitions"}

\* Call c ends in this step with a create request that failed.
CreateFails(c) ==
    /\ pc[c] \in {"db", "coll"} /\ pc'[c] = "done"
    /\ outcome'[c] \in InitErrors /\ faults' # faults

\* Call c starts in this step with keys or changes to work on.
Starts(c) == pc[c] = "idle" /\ pc'[c] # "idle" /\ ~NoInput(keys'[c])

\* C38: a create request that fails with something other than "already
\* exists" leaves both handles of every instance as they were; a call that
\* starts on an instance whose database handle is unset issues the database
\* create, one that starts with the database handle set and the container
\* handle unset issues the collection create, and one that starts with both
\* handles set issues no create, whatever failed before.
C38_FailureNotCached ==
    [][\A c \in Calls :
          /\ CreateFails(c) => database' = database /\ container' = container
          /\ Starts(c) =>
               /\ ~database[inst'[c]] => pc'[c] = "db"
               /\ database[inst'[c]] /\ ~container[inst'[c]] => pc'[c] = "coll"
               /\ database[inst'[c]] /\ container[inst'[c]]
                    => pc'[c] \notin {"db", "coll"}]_vars

\* A call failed with "Error initializing database"; the only other call made,
\* started after it on the same instance, provisioned the instance and
\* succeeded.
C38_Witness ==
    \E c, d \in Calls :
        /\ pc[d] = "done" /\ outcome[d] = "Error initializing database"
        /\ d \in doneBefore[c] /\ inst[c] = inst[d]
        /\ pc[c] = "done" /\ outcome[c] = "ok" /\ ~NoInput(keys[c])
        /\ database[inst[c]] /\ container[inst[c]]
        /\ \A e \in Calls \ {c, d} : pc[e] = "idle"

\* ----------------------------------------------------- claims on reading
\* The record stored under id, or "none".
Stored(d, id) == IF id \in DOMAIN d THEN d[id] ELSE [realId |-> "none"]

\* C39: no step of a read call changes the stored records or the version
\* counter; an item a read returns carries the version token its record has
\* in the store at that moment; and a record is created, changed or removed
\* only in the step that settles the request of a write or delete for its key.
C39_ReadLeavesStore ==
    [][/\ \A c \in Calls :
            (op'[c] = "read" /\ pc'[c] # pc[c])
            => docs' = docs /\ nextEtag' = nextEtag
       /\ \A c \in Calls :
            (pc[c] = "query" /\ pc'[c] = "done" /\ outcome'[c] = "ok")
            => \A r \in DOMAIN items'[c] :
                  /\ EscapeKey(r) \in DOMAIN docs'
                  /\ items'[c][r].eTag = docs'[EscapeKey(r)]._etag
       /\ \A id \in DOMAIN docs \cup DOMAIN docs' :
            Stored(docs', id) # Stored(docs, id)
            => \E c \in Calls, k \in Keys :
                  /\ op[c] \in {"write", "delete"} /\ EscapeKey(k) = id
                  /\ InFlight(c, k) /\ reqs'[c][k] # "pending"]_vars

\* A read returned an item with its eTag, and a write started after the read
\* had returned replaced the record under that eTag.
C39_Witness ==
    \E c, d \in Calls, k \in Keys :
        /\ op[c] = "read" /\ pc[c] = "done" /\ outcome[c] = "ok"
        /\ k \in DOMAIN items[c]
        /\ c \in doneBefore[d] /\ Writes(d, k)
        /\ changes[d][k].eTag = items[c][k].eTag
        /\ k \in DOMAIN reqs[d] /\ reqs[d][k] = "ok"

\* ------------------------------------------- claims on a shared prompt
\* The reply is the submission, without text, of the card sent last in the
\* prompt's own conversation, with every required input filled in.
FromLatestCard(activity) ==
    /\ ~Has(activity, "text") /\ Has(activity, "value")
    /\ history.cards # <<>>
    /\ activity.value.promptId = history.cards[Len(history.cards)]
    /\ \A n \in DOMAIN prompt.requiredInputIds :
           ~Missing(activity.value, prompt.requiredInputIds[n])

\* C40: a continueDialog whose activity is the submission of the card sent
\* last in its own conversation recognizes it, whether or not the instance
\* has sent a card in the other conversation since.
C40_OwnCardRecognized ==
    [][(/\ dialog.status = "waiting"
        /\ history'.calls = history.calls + 1
        /\ FromLatestCard(turn'.activity))
       => turn'.succeeded]_vars
====
